---- MODULE Spec2Model ----
(***************************************************************************)
(* Storefront backend (san_rate_env.js): token issue / verification, the   *)
(* recursive request sanitizer, checkout pricing from the product          *)
(* catalog, and the HMAC digest that binds a priced order summary between  *)
(* /api/checkout and /api/save-order.                                      *)
(*                                                                         *)
(* Representation.  A JavaScript string is a sequence of one-character     *)
(* strings (a Text), so that trim, xss and JSON.stringify are computed     *)
(* character by character.  A JSON value is a tagged record (JNum, JStr,   *)
(* JNaN, JNull, JUndef).  A number is kept in hundredths of the currency   *)
(* unit (800 is 80000).  An object whose key order the code never fixes    *)
(* (address, pricing) is a sequence of <<key, value>> pairs in insertion   *)
(* order, which is the order JSON.stringify walks.                         *)
(*                                                                         *)
(* Left out: the rate limiters, CORS / header middleware, and failures of  *)
(* the database driver.                                                    *)
(***************************************************************************)
EXTENDS Integers, Sequences, FiniteSets, TLC

VARIABLES now, token, req, res, quote, orders, emails, touched

vars == <<now, token, req, res, quote, orders, emails, touched>>

----------------------------------------------------------------------------
(* Bounds *)

MaxTime == 2
MaxCart == 2
MaxOrders == 1

----------------------------------------------------------------------------
(* JSON values *)

JNum(c) == [t |-> "num", n |-> c, s |-> <<>>]
JStr(s) == [t |-> "str", n |-> 0, s |-> s]
JNaN == [t |-> "nan", n |-> 0, s |-> <<>>]
JNull == [t |-> "null", n |-> 0, s |-> <<>>]
JUndef == [t |-> "undef", n |-> 0, s |-> <<>>]

IsStr(v) == v.t = "str"

(* typeof v === 'number' && !isNaN(v) *)
IsNumber(v) == v.t = "num"

----------------------------------------------------------------------------
(* Strings *)

RECURSIVE TrimStart(_)
TrimStart(s) ==
  IF s # <<>> /\ Head(s) = " " THEN TrimStart(Tail(s)) ELSE s

RECURSIVE TrimEnd(_)
TrimEnd(s) ==
  IF s # <<>> /\ s[Len(s)] = " " THEN TrimEnd(SubSeq(s, 1, Len(s) - 1)) ELSE s

(* String.prototype.trim *)
trim(s) == TrimEnd(TrimStart(s))

(* js-xss escapeHtml: "<" and ">" become entities, "&" is left alone *)
RECURSIVE escapeHtml(_)
escapeHtml(s) ==
  IF s = <<>> THEN <<>>
  ELSE LET c == Head(s)
       IN (IF c = "<" THEN <<"&", "l", "t", ";">>
           ELSE IF c = ">" THEN <<"&", "g", "t", ";">>
           ELSE <<c>>) \o escapeHtml(Tail(s))

(* xss(): on text that holds no whitelisted tag, every tag and every stray *)
(* angle bracket is escaped                                                *)
xss(s) == escapeHtml(s)

----------------------------------------------------------------------------
(* JSON.stringify *)

Digit(d) == ToString(d)

(* a number of hundredths as JavaScript prints it: 80000 is 800, 19999 is *)
(* 199.99, 50 is 0.5                                                       *)
NumStr(c) ==
  ToString(c \div 100) \o
    (IF c % 100 = 0 THEN ""
     ELSE "." \o Digit((c % 100) \div 10) \o
          (IF c % 10 = 0 THEN "" ELSE Digit(c % 10)))

RECURSIVE QuoteChars(_)
QuoteChars(s) ==
  IF s = <<>> THEN ""
  ELSE (IF Head(s) = "\"" THEN "\\\""
        ELSE IF Head(s) = "\\" THEN "\\\\"
        ELSE Head(s)) \o QuoteChars(Tail(s))

quoted(s) == "\"" \o QuoteChars(s) \o "\""

(* a scalar: NaN and null both print as null *)
stringifyVal(v) ==
  IF v.t = "num" THEN NumStr(v.n)
  ELSE IF v.t = "str" THEN quoted(v.s)
  ELSE "null"

(* the members of an object in insertion order; an undefined value drops *)
(* its key                                                               *)
RECURSIVE stringifyMembers(_, _)
stringifyMembers(kv, first) ==
  IF kv = <<>> THEN ""
  ELSE IF kv[1][2].t = "undef" THEN stringifyMembers(Tail(kv), first)
  ELSE (IF first THEN "" ELSE ",") \o "\"" \o kv[1][1] \o "\":" \o
       stringifyVal(kv[1][2]) \o stringifyMembers(Tail(kv), FALSE)

stringifyObject(kv) == "{" \o stringifyMembers(kv, TRUE) \o "}"

----------------------------------------------------------------------------
(* Objects with client-chosen key order *)

JObj(kv) == [t |-> "obj", kv |-> kv]
NoObj == [t |-> "undef", kv |-> <<>>]

(* obj[key], undefined when the key is absent *)
RECURSIVE Get(_, _)
Get(kv, key) ==
  IF kv = <<>> THEN JUndef
  ELSE IF kv[1][1] = key THEN kv[1][2]
  ELSE Get(Tail(kv), key)

----------------------------------------------------------------------------
(* Secrets (environment configuration) *)

SECRET_KEY == "order-secret"
JWT_SECRET == "jwt-secret"
OtherSecret == "not-the-server"

----------------------------------------------------------------------------
(* Integrity hasher *)

(* a projection that forgets the size of a line *)
hashedLine_noSize(item) ==
  stringifyObject(<< <<"productCode", item.productCode>>,
                     <<"productName", item.productName>>,
                     <<"price", item.price>> >>)

(* the four hashed fields of a cart line, in the order the code lists them *)
hashedLine(item) ==
  stringifyObject(<< <<"productCode", item.productCode>>,
                     <<"productName", item.productName>>,
                     <<"price", item.price>>,
                     <<"size", item.size>> >>)

RECURSIVE stringifyCart(_, _)
stringifyCart(cart, first) ==
  IF cart = <<>> THEN ""
  ELSE (IF first THEN "" ELSE ",") \o hashedLine(cart[1]) \o
       stringifyCart(Tail(cart), FALSE)

orderString(order) ==
  "{\"cart\":[" \o stringifyCart(order.cart.items, TRUE) \o "]," \o
  "\"address\":" \o stringifyObject(order.address.kv) \o "," \o
  "\"pricing\":" \o stringifyObject(order.pricing.kv) \o "}"

(* HMAC-SHA256 as an ideal keyed function: the digest names its key and *)
(* its message, so two digests are equal iff both are                   *)
Hmac(key, msg) == [key |-> key, msg |-> msg]

generateOrderHash(order) == Hmac(SECRET_KEY, orderString(order))

verifyOrderHash(order, hash) == generateOrderHash(order) = hash

----------------------------------------------------------------------------
(* Sanitizer *)

T(str) == JStr(str)

sanitizeVal(v) == IF v.t = "str" THEN JStr(xss(v.s)) ELSE v

(* sanitizeObject on an object of scalars: every string member is replaced *)
(* in place, so the key order is kept                                      *)
sanitizeObject(o) ==
  [o EXCEPT !.kv = [i \in 1..Len(o.kv) |-> <<o.kv[i][1], sanitizeVal(o.kv[i][2])>>]]

sanitizeItem(item) == [f \in DOMAIN item |-> sanitizeVal(item[f])]

sanitizeArray(a) ==
  [a EXCEPT !.items = [i \in 1..Len(a.items) |-> sanitizeItem(a.items[i])]]

sanitizeOrder(o) ==
  [o EXCEPT !.cart = sanitizeArray(o.cart),
            !.address = sanitizeObject(o.address),
            !.pricing = sanitizeObject(o.pricing),
            !.status = sanitizeVal(o.status)]

(* sanitizeRequest: the body of every request, before any route runs *)
sanitizeRequest(body) ==
  [body EXCEPT !.cart = sanitizeArray(body.cart),
               !.address = sanitizeObject(body.address),
               !.order = sanitizeOrder(body.order),
               !.email = sanitizeVal(body.email),
               !.productName = sanitizeVal(body.productName),
               !.size = sanitizeVal(body.size)]

----------------------------------------------------------------------------
(* Tokens *)

(* JWT_EXPIRY, in clock ticks *)
JWT_EXPIRY == 1

NoToken == [secret |-> "", exp |-> 0]

(* jwt.sign({clientId}, JWT_SECRET, {expiresIn}); the random clientId plays *)
(* no part in verification and is left out                                 *)
jwtSign(secret, t) == [secret |-> secret, exp |-> t + JWT_EXPIRY]

(* the Authorization header: absent, "Bearer" with no second part, a second *)
(* part that is no JWT, or a JWT                                            *)
NoHeader == [kind |-> "absent", secret |-> "", exp |-> 0]
BearerOnly == [kind |-> "noToken", secret |-> "", exp |-> 0]
Garbage == [kind |-> "garbage", secret |-> "", exp |-> 0]
Bearer(tok) == [kind |-> "jwt", secret |-> tok.secret, exp |-> tok.exp]

(* a verification that checks the signature and not the expiry *)
jwtVerify_noExpiry(h, t) == h.kind = "jwt" /\ h.secret = JWT_SECRET

(* jwt.verify(token, JWT_SECRET) does not throw *)
jwtVerify(h, t) == h.kind = "jwt" /\ h.secret = JWT_SECRET /\ t < h.exp

(* a middleware without the "Token not provided" check *)
authenticateJWT_noTokenCheck(h, t) ==
  IF h.kind = "absent" THEN "Unauthenticated"
  ELSE IF jwtVerify(h, t) THEN "next"
  ELSE "Forbidden"

authenticateJWT(h, t) ==
  IF h.kind = "absent" THEN "Unauthenticated"
  ELSE IF h.kind = "noToken" THEN "Unauthenticated"
  ELSE IF jwtVerify(h, t) THEN "next"
  ELSE "Forbidden"

----------------------------------------------------------------------------
(* Catalog: the product collection, in collection order.  The prices are   *)
(* amounts on which the double arithmetic of the pricing code and the      *)
(* hundredths kept here agree (no sum of them times 0.1 has a 5 in its     *)
(* third decimal).                                                         *)

Product(id, code, name, price, url) ==
  [_id |-> T(id), product_code |-> T(code), product_name |-> T(name),
   product_price |-> price, product_imageurl |-> T(url)]

Catalog ==
  << Product(<<"1">>, <<"A", "1">>, <<"T", "e", "e">>, JNum(80000), <<"a">>),
     Product(<<"2">>, <<"B", "2">>, <<"C", "a", "p">>, JNum(50000), <<"b">>),
     Product(<<"3">>, <<"C", "3">>, <<"B", "a", "g">>, JNum(20000), <<"c">>),
     Product(<<"4">>, <<"D", "4">>, <<"<", "x", ">">>, JNum(19924), <<"d">>),
     Product(<<"5">>, <<"E", "5">>, <<"P", "i", "n">>, JNaN, <<"e">>) >>

(* a query that ignores its filter *)
find_everything(codes) == Catalog

(* Product.find({ product_code: { $in: codes } }) *)
find(codes) ==
  SelectSeq(Catalog,
            LAMBDA p : \E i \in 1..Len(codes) : codes[i] = p.product_code.s)

(* Product.findOne({ product_code: code }) *)
findOne(code) == find(<<code>>)

----------------------------------------------------------------------------
(* Pricing engine *)

FREE_DELIVERY_ABOVE == 70000
DELIVERY_FEE == 15000

(* Number.prototype.toFixed(2) then parseFloat, on a value in thousandths: *)
(* the nearest hundredth                                                   *)
toFixed2(m) == (m + 5) \div 10

(* subtotal * 0.1, in thousandths *)
tenth(c) == (c * 10) \div 10

(* cart.map(item => item.productCode.trim()), when no code throws *)
codesValid(items) ==
  \A i \in 1..Len(items) :
    IsStr(items[i].productCode) /\ trim(items[i].productCode.s) # <<>>

productCodes(items) == [i \in 1..Len(items) |-> trim(items[i].productCode.s)]

(* products.find(p => p.product_code === cartItem.productCode) *)
matching(products, cartItem) ==
  SelectSeq(products, LAMBDA p : p.product_code = cartItem.productCode)

itemSize(cartItem) == IF IsStr(cartItem.size) THEN trim(cartItem.size.s) ELSE <<>>

(* the line the map callback returns a non-null value for *)
keeps(products, cartItem) ==
  matching(products, cartItem) # <<>> /\ itemSize(cartItem) # <<>>

(* an enrichment that trusts a price sent by the client *)
enhance_clientPrice(products, cartItem) ==
  LET productData == Head(matching(products, cartItem))
  IN [_id |-> productData._id,
      productCode |-> productData.product_code,
      productName |-> productData.product_name,
      price |-> IF cartItem.price.t = "num" THEN cartItem.price
                ELSE productData.product_price,
      imageUrl |-> productData.product_imageurl,
      size |-> T(itemSize(cartItem))]

enhance(products, cartItem) ==
  LET productData == Head(matching(products, cartItem))
  IN [_id |-> productData._id,
      productCode |-> productData.product_code,
      productName |-> productData.product_name,
      price |-> productData.product_price,
      imageUrl |-> productData.product_imageurl,
      size |-> T(itemSize(cartItem))]

RECURSIVE enhancedCart(_, _)
enhancedCart(products, items) ==
  IF items = <<>> THEN <<>>
  ELSE (IF keeps(products, Head(items))
        THEN <<enhance(products, Head(items))>> ELSE <<>>)
       \o enhancedCart(products, Tail(items))

RECURSIVE subtotalOf(_)
subtotalOf(items) ==
  IF items = <<>> THEN 0
  ELSE (IF IsNumber(Head(items).price) THEN Head(items).price.n ELSE 0)
       + subtotalOf(Tail(items))

discountOf(subtotal) == toFixed2(tenth(subtotal))

(* free delivery from 700 on, not above 700 *)
deliveryOf_from700(subtotal) ==
  IF subtotal >= FREE_DELIVERY_ABOVE THEN 0 ELSE DELIVERY_FEE

deliveryOf(subtotal) == IF subtotal > FREE_DELIVERY_ABOVE THEN 0 ELSE DELIVERY_FEE

totalOf(subtotal, delivery, discount) ==
  toFixed2((subtotal + delivery - discount) * 10)

pricingOf(items) ==
  LET subtotal == subtotalOf(items)
      discount == discountOf(subtotal)
      delivery == deliveryOf(subtotal)
      total == totalOf(subtotal, delivery, discount)
  IN JObj(<< <<"subtotal", JNum(subtotal)>>, <<"discount", JNum(discount)>>,
             <<"delivery", JNum(delivery)>>, <<"total", JNum(total)>> >>)

----------------------------------------------------------------------------
(* Orders, requests, responses *)

JArr(items) == [t |-> "arr", items |-> items]
NoArr == [t |-> "undef", items |-> <<>>]

Order(cart, address, pricing, date, status) ==
  [t |-> "obj", cart |-> cart, address |-> address, pricing |-> pricing,
   orderDate |-> date, status |-> status]

NoOrder == [t |-> "undef", cart |-> NoArr, address |-> NoObj, pricing |-> NoObj,
            orderDate |-> 0, status |-> JUndef]

NoHash == Hmac("", "")

(* a request: the route, the Authorization header, the JSON body and the *)
(* time it arrives                                                       *)
Body(cart, address, order, orderHash, email, productName, size) ==
  [cart |-> cart, address |-> address, order |-> order, orderHash |-> orderHash,
   email |-> email, productName |-> productName, size |-> size]

EmptyBody == Body(NoArr, NoObj, NoOrder, NoHash, JUndef, JUndef, JUndef)

Request(op, h, body, t) == [op |-> op, auth |-> h, body |-> body, at |-> t]

NoRequest == Request("none", NoHeader, EmptyBody, 0)

(* a response: the error kind, the HTTP status, and for checkout the order *)
(* summary and its digest                                                  *)
Response(kind, http, order, orderHash) ==
  [kind |-> kind, http |-> http, order |-> order, orderHash |-> orderHash]

Fail(kind, http) == Response(kind, http, NoOrder, NoHash)

NoResponse == Fail("none", 0)

----------------------------------------------------------------------------
(* Route handlers, on a sanitized body.  Each gives the response, the      *)
(* stores it touched and what it inserts.                                  *)

Outcome(response, stores, insert) ==
  [res |-> response, touched |-> stores, insert |-> insert]

Rejected(kind, http) == Outcome(Fail(kind, http), {}, NoOrder)

(* POST /api/checkout *)
checkout(body, t) ==
  LET cart == body.cart
      address == body.address
  IN IF cart.t # "arr" \/ cart.items = <<>> THEN Rejected("InvalidInput", 400)
     ELSE IF address.t # "obj" THEN Rejected("InvalidInput", 400)
     ELSE IF ~codesValid(cart.items) THEN Rejected("Internal", 500)
     ELSE LET products == find(productCodes(cart.items))
          IN IF products = <<>>
             THEN Outcome(Fail("NotFound", 404), {"catalog"}, NoOrder)
             ELSE LET items == enhancedCart(products, cart.items)
                  IN IF items = <<>>
                     THEN Outcome(Fail("InvalidInput", 400), {"catalog"}, NoOrder)
                     ELSE LET orderSummary ==
                                Order(JArr(items), address, pricingOf(items),
                                      t, T(<<"p", "e", "n", "d", "i", "n", "g">>))
                          IN Outcome(Response("OK", 200, orderSummary,
                                              generateOrderHash(orderSummary)),
                                     {"catalog"}, NoOrder)

(* a save-order that persists without comparing digests *)
saveOrder_unverified(body) ==
  LET order == body.order
      orderHash == body.orderHash
  IN IF order.t # "obj" \/ orderHash = NoHash THEN Rejected("InvalidInput", 400)
     ELSE IF order.cart.t # "arr" \/ order.address.t # "obj"
             \/ order.pricing.t # "obj"
          THEN Rejected("InvalidInput", 400)
     ELSE Outcome(Fail("OK", 200), {"orders"}, order)

(* POST /api/save-order *)
saveOrder(body) ==
  LET order == body.order
      orderHash == body.orderHash
  IN IF order.t # "obj" \/ orderHash = NoHash THEN Rejected("InvalidInput", 400)
     ELSE IF order.cart.t # "arr" \/ order.address.t # "obj"
             \/ order.pricing.t # "obj"
          THEN Rejected("InvalidInput", 400)
     ELSE IF ~verifyOrderHash(order, orderHash)
          THEN Rejected("IntegrityViolation", 400)
     ELSE Outcome(Fail("OK", 200), {"orders"}, order)

(* String.prototype.toLowerCase on the letters the model uses *)
lowerChar(c) == IF c = "A" THEN "a" ELSE IF c = "B" THEN "b" ELSE c

toLowerCase(s) == [i \in 1..Len(s) |-> lowerChar(s[i])]

(* validator.isEmail: local part, "@", dotted domain *)
isValidEmail(s) ==
  \E i \in 2..(Len(s) - 3) :
    /\ s[i] = "@"
    /\ \E k \in (i + 2)..(Len(s) - 1) : s[k] = "."
    /\ \A j \in 1..Len(s) : j # i => s[j] \notin {"@", " ", "<", ">", "&", ";"}

(* POST /api/subscribe; the insert is the address it returns *)
subscribe(body, stored) ==
  LET email == IF IsStr(body.email) THEN toLowerCase(trim(body.email.s)) ELSE <<>>
  IN IF email = <<>> THEN [kind |-> "InvalidInput", http |-> 400, touched |-> {}, insert |-> <<>>]
     ELSE IF ~isValidEmail(email)
          THEN [kind |-> "InvalidInput", http |-> 400, touched |-> {}, insert |-> <<>>]
     ELSE IF email \in stored
          THEN [kind |-> "Conflict", http |-> 409, touched |-> {"emails"}, insert |-> <<>>]
     ELSE [kind |-> "OK", http |-> 201, touched |-> {"emails"}, insert |-> email]

(* POST /api/add-to-collection *)
addToCollection(body) ==
  LET productName == IF IsStr(body.productName) THEN trim(body.productName.s) ELSE <<>>
      size == IF IsStr(body.size) THEN trim(body.size.s) ELSE <<>>
  IN IF productName = <<>> \/ size = <<>> THEN Rejected("InvalidInput", 400)
     ELSE IF findOne(productName) # <<>>
          THEN Outcome(Fail("OK", 200), {"catalog"}, NoOrder)
          ELSE Outcome(Fail("NotFound", 404), {"catalog"}, NoOrder)

----------------------------------------------------------------------------
(* What the client receives: res.json() prints NaN as null *)

wireVal(v) == IF v.t = "nan" THEN JNull ELSE v

wireItem(item) == [f \in DOMAIN item |-> wireVal(item[f])]

wireOrder(o) ==
  [o EXCEPT !.cart.items = [i \in 1..Len(o.cart.items) |-> wireItem(o.cart.items[i])]]

Quote(order, orderHash) == [order |-> order, orderHash |-> orderHash]

NoQuote == Quote(NoOrder, NoHash)

----------------------------------------------------------------------------
(* Requests the clients send *)

Line(code, size, price, name) ==
  [productCode |-> code, size |-> size, price |-> price, productName |-> name]

A1 == <<"A", "1">>
D4 == <<"D", "4">>
Z9 == <<"Z", "9">>
Markup == <<"<", "x", ">">>

LineA == Line(T(A1), T(<<"M">>), JUndef, JUndef)
LineD == Line(T(D4), T(<<"M">>), JUndef, JUndef)
LineZ == Line(T(Z9), T(<<"M">>), JUndef, JUndef)

Carts == { JArr(<<LineA>>), JArr(<<LineD>>), JArr(<<LineA, LineD>>), JArr(<<LineZ>>) }

Pune == <<"P", "u", "n", "e">>

Addresses ==
  { JObj(<< <<"city", T(Pune)>>, <<"zip", T(<<"4", "1">>)>> >>),
    JObj(<< <<"city", T(Markup)>>, <<"zip", T(<<"4", "1">>)>> >>) }

(* the headers a client can send: none, malformed ones, a token signed with *)
(* another secret, and the token the server last issued                     *)
Headers ==
  { NoHeader, BearerOnly, Garbage, Bearer(jwtSign(OtherSecret, now)) }
    \cup (IF token = NoToken THEN {} ELSE {Bearer(token)})

Emails ==
  { T(<<"a", "@", "b", ".", "i", "o">>), T(<<" ", "A", "@", "b", ".", "i", "o">>),
    T(<<"a", "b">>), T(<<>>), JUndef }

----------------------------------------------------------------------------
(* Edits of a quoted order *)

TamperValues == { JNum(100), T(<<"1">>), T(Markup) }

HashedFields == {"productCode", "productName", "price", "size"}

editLine(o, i, f, v) == [o EXCEPT !.cart.items[i][f] = v]

editAddress(o, i, v) == [o EXCEPT !.address.kv[i][2] = v]

editPricing(o, i, v) == [o EXCEPT !.pricing.kv[i][2] = v]

(* the orders that differ from o in exactly one hashed field *)
Edits(o) ==
  { editLine(o, i, f, v) :
      i \in 1..Len(o.cart.items), f \in HashedFields, v \in TamperValues }
  \cup { editAddress(o, i, v) : i \in 1..Len(o.address.kv), v \in TamperValues }
  \cup { editPricing(o, i, v) : i \in 1..Len(o.pricing.kv), v \in TamperValues }

Reverse(s) == [i \in 1..Len(s) |-> s[Len(s) + 1 - i]]

(* the same members listed in another key order *)
Reorders(o) ==
  { [o EXCEPT !.address.kv = Reverse(o.address.kv)],
    [o EXCEPT !.pricing.kv = Reverse(o.pricing.kv)] }

(* an order no checkout produced *)
MadeUp ==
  Order(JArr(<<[_id |-> T(<<"1">>), productCode |-> T(A1), productName |-> T(<<"T", "e", "e">>),
               price |-> JNum(100), imageUrl |-> T(<<"a">>), size |-> T(<<"M">>)]>>),
        JObj(<< <<"city", T(Pune)>> >>),
        JObj(<< <<"subtotal", JNum(100)>>, <<"discount", JNum(0)>>,
                <<"delivery", JNum(0)>>, <<"total", JNum(100)>> >>),
        0, T(<<"p", "a", "i", "d">>))

(* save-order bodies: the quote echoed, edited, reordered, stripped, or *)
(* carried by a digest the client made itself                           *)
SaveBodies ==
  LET q == quote
      have == q.order.t = "obj"
      same == IF have THEN {<<q.order, q.orderHash>>} ELSE {}
      edited == IF have
                THEN {<<o, q.orderHash>> : o \in (Edits(q.order) \ {q.order})}
                ELSE {}
      reordered == IF have THEN {<<o, q.orderHash>> : o \in Reorders(q.order)} ELSE {}
      stripped == IF have
                  THEN { <<q.order, NoHash>>,
                         <<[q.order EXCEPT !.cart = NoArr], q.orderHash>> }
                  ELSE {}
      forged == { <<MadeUp, Hmac(OtherSecret, orderString(MadeUp))>>,
                  <<MadeUp, q.orderHash>>, <<NoOrder, q.orderHash>> }
  IN same \cup edited \cup reordered \cup stripped \cup forged

----------------------------------------------------------------------------
(* The middleware chain of a protected route: sanitizeRequest, then        *)
(* authenticateJWT, then the route on the sanitized body                   *)

denied(auth) ==
  IF auth = "Unauthenticated" THEN Rejected("Unauthenticated", 401)
  ELSE Rejected("Forbidden", 403)

postCheckout(r, t) ==
  LET auth == authenticateJWT(r.auth, t)
  IN IF auth = "next" THEN checkout(sanitizeRequest(r.body), t) ELSE denied(auth)

postSaveOrder(r, t) ==
  LET auth == authenticateJWT(r.auth, t)
  IN IF auth = "next" THEN saveOrder(sanitizeRequest(r.body)) ELSE denied(auth)

postAddToCollection(r, t) ==
  LET auth == authenticateJWT(r.auth, t)
  IN IF auth = "next" THEN addToCollection(sanitizeRequest(r.body)) ELSE denied(auth)

postSubscribe(r, t, stored) ==
  LET auth == authenticateJWT(r.auth, t)
  IN IF auth = "next" THEN subscribe(sanitizeRequest(r.body), stored)
     ELSE [kind |-> denied(auth).res.kind, http |-> denied(auth).res.http,
           touched |-> {}, insert |-> <<>>]

----------------------------------------------------------------------------
(* The server and its clients *)

Init ==
  /\ now = 0
  /\ token = NoToken
  /\ req = NoRequest
  /\ res = NoResponse
  /\ quote = NoQuote
  /\ orders = <<>>
  /\ emails = {}
  /\ touched = {}

(* the wall clock advances *)
Tick ==
  /\ now < MaxTime
  /\ now' = now + 1
  /\ UNCHANGED <<token, req, res, quote, orders, emails, touched>>

(* POST /api/get-token: the client keeps the token it was last given *)
GetToken ==
  /\ Len(orders) < MaxOrders
  /\ token' = jwtSign(JWT_SECRET, now)
  /\ req' = Request("get-token", NoHeader, EmptyBody, now)
  /\ res' = Fail("OK", 200)
  /\ touched' = {}
  /\ UNCHANGED <<now, quote, orders, emails>>

SubscribeReq(h, e) ==
  LET r == Request("subscribe", h, [EmptyBody EXCEPT !.email = e], now)
      out == postSubscribe(r, now, emails)
  IN /\ Len(orders) < MaxOrders
     /\ req' = r
     /\ res' = Fail(out.kind, out.http)
     /\ touched' = out.touched
     /\ emails' = IF out.insert # <<>> THEN emails \cup {out.insert} ELSE emails
     /\ UNCHANGED <<now, token, quote, orders>>

AddToCollectionReq(h, n) ==
  LET r == Request("add-to-collection", h,
                   [EmptyBody EXCEPT !.productName = n, !.size = T(<<"M">>)], now)
      out == postAddToCollection(r, now)
  IN /\ Len(orders) < MaxOrders
     /\ req' = r
     /\ res' = out.res
     /\ touched' = out.touched
     /\ UNCHANGED <<now, token, quote, orders, emails>>

(* POST /api/checkout; the client keeps the summary and digest of the last *)
(* checkout that succeeded                                                 *)
CheckoutReq(h, c, a) ==
  LET r == Request("checkout", h, [EmptyBody EXCEPT !.cart = c, !.address = a], now)
      out == postCheckout(r, now)
  IN /\ Len(orders) < MaxOrders
     /\ req' = r
     /\ res' = out.res
     /\ touched' = out.touched
     /\ quote' = IF out.res.kind = "OK"
                 THEN Quote(wireOrder(out.res.order), out.res.orderHash)
                 ELSE quote
     /\ UNCHANGED <<now, token, orders, emails>>

(* POST /api/save-order *)
SaveOrderReq(h, b) ==
  LET r == Request("save-order", h,
                   [EmptyBody EXCEPT !.order = b[1], !.orderHash = b[2]], now)
      out == postSaveOrder(r, now)
  IN /\ Len(orders) < MaxOrders
     /\ req' = r
     /\ res' = out.res
     /\ touched' = out.touched
     /\ orders' = IF out.insert.t = "obj" THEN Append(orders, out.insert) ELSE orders
     /\ UNCHANGED <<now, token, quote, emails>>

----------------------------------------------------------------------------
(* Order flow: the clock stands still; a client gets a token, prices       *)
(* carts and confirms orders.                                              *)

Checkout ==
  \/ \E c \in Carts, a \in Addresses :
       token # NoToken /\ CheckoutReq(Bearer(token), c, a)
  \/ \E h \in Headers : CheckoutReq(h, JArr(<<LineA>>), JObj(<< <<"city", T(Pune)>> >>))

SaveOrder ==
  \/ \E b \in SaveBodies : token # NoToken /\ SaveOrderReq(Bearer(token), b)
  \/ \E h \in Headers : SaveOrderReq(h, <<quote.order, quote.orderHash>>)

Next == GetToken \/ Checkout \/ SaveOrder

Spec == Init /\ [][Next]_vars

----------------------------------------------------------------------------
(* Authentication: the clock runs, tokens expire; every protected route    *)
(* is called with every header.                                            *)

AuthBodies ==
  { <<quote.order, quote.orderHash>>,
    <<MadeUp, Hmac(OtherSecret, orderString(MadeUp))>> }

AuthSubscribe ==
  \E h \in Headers, e \in Emails : SubscribeReq(h, e)

AuthAddToCollection == \E h \in Headers, n \in {T(A1), T(Z9)} : AddToCollectionReq(h, n)

AuthCheckout ==
  \E h \in Headers, c \in {JArr(<<LineA>>), JArr(<<LineZ>>)} :
    CheckoutReq(h, c, JObj(<< <<"city", T(Pune)>> >>))

AuthSaveOrder == \E h \in Headers, b \in AuthBodies : SaveOrderReq(h, b)

NextAuth ==
  Tick \/ GetToken \/ AuthSubscribe \/ AuthAddToCollection \/ AuthCheckout
    \/ AuthSaveOrder

SpecAuth == Init /\ [][NextAuth]_vars

----------------------------------------------------------------------------
(* Pricing: one checkout request, drawn from carts of up to MaxCart lines  *)
(* that are known, unknown, padded, forged or malformed, and priced once.  *)

B2 == <<"B", "2">>
C3 == <<"C", "3">>
E5 == <<"E", "5">>

CartLines ==
  { LineA, LineD, LineZ,
    Line(T(A1), T(<<"M">>), JNum(100), T(<<"F", "r", "e", "e">>)),
    Line(T(B2), T(<<"L">>), JUndef, JUndef),
    Line(T(C3), T(<<"S">>), JUndef, JUndef),
    Line(T(E5), T(<<"M">>), JUndef, JUndef),
    Line(T(<<" ", "A", "1">>), T(<<"M">>), JUndef, JUndef),
    Line(T(A1), T(<<" ">>), JUndef, JUndef),
    Line(T(A1), JNum(100), JUndef, JUndef),
    Line(T(B2), T(<<" ", "M", " ">>), JUndef, JUndef),
    Line(JNum(100), T(<<"M">>), JUndef, JUndef),
    Line(T(<<" ">>), T(<<"M">>), JUndef, JUndef) }

PricedCarts ==
  { JArr(items) : items \in UNION { [1..n -> CartLines] : n \in 0..MaxCart } }
    \cup { NoArr }

InitCheckout ==
  /\ now = 0
  /\ token = jwtSign(JWT_SECRET, 0)
  /\ req \in { Request("checkout", Bearer(token),
                       [EmptyBody EXCEPT !.cart = c, !.address = a], 0) :
                 c \in PricedCarts, a \in Addresses \cup {NoObj} }
  /\ res = NoResponse
  /\ quote = NoQuote
  /\ orders = <<>>
  /\ emails = {}
  /\ touched = {}

PriceCart ==
  /\ res = NoResponse
  /\ CheckoutReq(req.auth, req.body.cart, req.body.address)

NextCheckout == PriceCart

SpecCheckout == InitCheckout /\ [][NextCheckout]_vars

----------------------------------------------------------------------------
(* Vocabulary of the properties *)

Protected == {"subscribe", "add-to-collection", "checkout", "save-order"}

(* the request passed authenticateJWT *)
Authenticated == res.kind \notin {"none", "Unauthenticated", "Forbidden"}

(* the token of the request was signed by the server and its TTL had not *)
(* elapsed when the request arrived                                      *)
TokenGood(r) ==
  r.auth.kind = "jwt" /\ r.auth.secret = "jwt-secret" /\ r.at < r.auth.exp

(* the hashed projection of an order, as data *)
projection(o) ==
  [cart |-> [i \in 1..Len(o.cart.items) |->
               <<o.cart.items[i].productCode, o.cart.items[i].productName,
                 o.cart.items[i].price, o.cart.items[i].size>>],
   address |-> o.address.kv,
   pricing |-> o.pricing.kv]

(* a save-order request that carries a complete order and a digest *)
WellFormed(r) ==
  /\ r.op = "save-order"
  /\ r.body.order.t = "obj"
  /\ r.body.order.cart.t = "arr"
  /\ r.body.order.address.t = "obj"
  /\ r.body.order.pricing.t = "obj"
  /\ r.body.orderHash # NoHash

(* the last request was a confirm-order that carried the digest of the *)
(* client's quote and reached the route                                *)
ConfirmsQuote ==
  /\ WellFormed(req)
  /\ Authenticated
  /\ quote.order.t = "obj"
  /\ req.body.orderHash = quote.orderHash

----------------------------------------------------------------------------
(* C1: an order enters the order store only in a save-order step, as the   *)
(* order the handler received, and only if the submitted digest equals the *)
(* digest recomputed over that order; a well-formed authenticated request  *)
(* whose digest differs answers IntegrityViolation and leaves the store    *)
(* as it was.                                                              *)
C1_PersistOnlyVerified ==
  [][ LET received == sanitizeOrder(req'.body.order)
          recomputed == Hmac("order-secret", orderString(received))
      IN /\ orders' # orders =>
              /\ req'.op = "save-order"
              /\ orders' = Append(orders, received)
              /\ req'.body.orderHash = recomputed
         /\ (WellFormed(req') /\ TokenGood(req')
               /\ req'.body.orderHash # recomputed) =>
              /\ res'.kind = "IntegrityViolation"
              /\ orders' = orders ]_vars

C1_Witness ==
  /\ WellFormed(req)
  /\ quote.order.t = "obj"
  /\ req.body.order \in Edits(quote.order) \ {quote.order}
  /\ res.kind = "IntegrityViolation"
  /\ orders = <<>>

----------------------------------------------------------------------------
(* C2 as stated: a confirm-order that carries the quote's digest and an    *)
(* order differing from the quote in one hashed field fails with           *)
(* IntegrityViolation.                                                     *)
C2_AnyEditRejected ==
  (ConfirmsQuote /\ req.body.order \in Edits(quote.order) \ {quote.order})
    => res.kind = "IntegrityViolation"

(* C2 amended: every order that differs from the quote in one hashed field *)
(* fails verification against the quote's digest, and a confirm-order with *)
(* such an order and the quote's digest fails with IntegrityViolation      *)
(* whenever the order still differs from the quote in a hashed field after *)
(* the request sanitizer has run.                                          *)
C2_EditRejectedUnlessSanitizedAway ==
  /\ quote.order.t = "obj" =>
       \A o \in Edits(quote.order) \ {quote.order} :
         ~verifyOrderHash(o, quote.orderHash)
  /\ (ConfirmsQuote /\ req.body.order \in Edits(quote.order) \ {quote.order}
        /\ projection(sanitizeOrder(req.body.order)) # projection(quote.order))
       => res.kind = "IntegrityViolation"

C2_Witness ==
  /\ ConfirmsQuote
  /\ req.body.order \in Edits(quote.order) \ {quote.order}
  /\ projection(sanitizeOrder(req.body.order)) # projection(quote.order)
  /\ req.body.order.address # quote.order.address
  /\ res.kind = "IntegrityViolation"

----------------------------------------------------------------------------
(* C7: listing the keys of address or pricing in another order gives the   *)
(* same digest, so a confirm-order that echoes the quote with reordered    *)
(* keys is accepted (for a quote the sanitizer leaves as it is).           *)
C7_KeyOrderIndependent ==
  (ConfirmsQuote /\ req.body.order \in Reorders(quote.order)
     /\ sanitizeOrder(quote.order) = quote.order)
    => /\ generateOrderHash(sanitizeOrder(req.body.order)) = quote.orderHash
       /\ res.kind = "OK"

----------------------------------------------------------------------------
(* C10: a confirm-order that echoes a checkout response unmodified, with a *)
(* valid token, passes verification and inserts the order.                 *)
C10_RoundTrip ==
  (ConfirmsQuote /\ req.body.order = quote.order)
    => res.kind = "OK" /\ orders # <<>>

----------------------------------------------------------------------------
(* C5: whenever a protected route is called, its handler reads or changes  *)
(* a store only if the bearer token was signed with the server's secret    *)
(* and its TTL had not elapsed on arrival; a token that has expired or was *)
(* signed with another secret is answered Forbidden, and no store is read  *)
(* or changed.                                                             *)
C5_HandlerOnlyWithLiveToken ==
  [][ (now' = now /\ req'.op \in Protected) =>
        /\ (touched' # {} \/ orders' # orders \/ emails' # emails
              \/ res'.kind \notin {"Unauthenticated", "Forbidden"})
             => TokenGood(req')
        /\ (req'.auth.kind = "jwt" /\ ~TokenGood(req')) =>
             /\ res'.kind = "Forbidden"
             /\ touched' = {}
             /\ orders' = orders
             /\ emails' = emails
             /\ quote' = quote ]_vars

C5_Witness ==
  /\ req.op \in {"checkout", "save-order"}
  /\ req.auth.kind = "jwt"
  /\ req.auth.secret = JWT_SECRET
  /\ req.at >= req.auth.exp
  /\ res.kind = "Forbidden"
  /\ touched = {}

----------------------------------------------------------------------------
(* C6 as stated: a credential that is absent, malformed or unparseable is  *)
(* answered Unauthenticated, and Forbidden is answered only for a token    *)
(* that parses but has a bad signature or has expired.                     *)
C6_UnparseableIsUnauthenticated ==
  req.op \in Protected =>
    /\ req.auth.kind \in {"absent", "noToken", "garbage"}
         => res.kind = "Unauthenticated"
    /\ res.kind = "Forbidden" => (req.auth.kind = "jwt" /\ ~TokenGood(req))

(* C6 amended: Unauthenticated is answered exactly when the authorization  *)
(* header is absent or has no token part; Forbidden is answered exactly    *)
(* when a token part is present and fails verification, whether it is      *)
(* unparseable, signed with another secret, or expired.                    *)
C6_MissingVersusRejected ==
  req.op \in Protected =>
    /\ res.kind = "Unauthenticated" <=> req.auth.kind \in {"absent", "noToken"}
    /\ res.kind = "Forbidden" <=>
         (req.auth.kind = "garbage" \/ (req.auth.kind = "jwt" /\ ~TokenGood(req)))

C6_Witness ==
  /\ req.op \in Protected
  /\ req.auth.kind = "garbage"
  /\ res.kind = "Forbidden"
  /\ res.http = 403

----------------------------------------------------------------------------
(* Vocabulary of the pricing properties *)

(* the checkout request has been answered *)
Priced == req.op = "checkout" /\ res.kind # "none"

Known(code) == \E k \in 1..Len(Catalog) : Catalog[k].product_code.s = code

(* the stored price of a code, counted as the subtotal counts it *)
StoredAmount(code) ==
  LET k == CHOOSE k \in 1..Len(Catalog) : Catalog[k].product_code.s = code
  IN IF Catalog[k].product_price.t = "num" THEN Catalog[k].product_price.n ELSE 0

RECURSIVE StoredSum(_)
StoredSum(items) ==
  IF items = <<>> THEN 0
  ELSE StoredAmount(Head(items).productCode.s) + StoredSum(Tail(items))

(* the request with every client-supplied price and product name removed *)
Unforged(r) ==
  [r EXCEPT !.body.cart.items =
     [i \in 1..Len(@) |-> [@[i] EXCEPT !.price = JUndef, !.productName = JUndef]]]

(* the cart is a non-empty list of non-blank string codes, with an address *)
CodesWellFormed(r) ==
  /\ r.body.cart.t = "arr"
  /\ r.body.cart.items # <<>>
  /\ r.body.address.t = "obj"
  /\ \A i \in 1..Len(r.body.cart.items) :
       /\ r.body.cart.items[i].productCode.t = "str"
       /\ trim(r.body.cart.items[i].productCode.s) # <<>>

KnownLines(r) ==
  { i \in 1..Len(r.body.cart.items) :
      Known(trim(r.body.cart.items[i].productCode.s)) }

(* the lines the claim keeps: known trimmed code, non-blank string size *)
RECURSIVE Kept(_)
Kept(lines) ==
  IF lines = <<>> THEN <<>>
  ELSE (IF /\ Head(lines).productCode.t = "str"
           /\ Known(trim(Head(lines).productCode.s))
           /\ Head(lines).size.t = "str"
           /\ trim(Head(lines).size.s) # <<>>
        THEN << <<trim(Head(lines).productCode.s), trim(Head(lines).size.s)>> >>
        ELSE <<>>) \o Kept(Tail(lines))

Amount(pricing, key) == Get(pricing.kv, key).n

----------------------------------------------------------------------------
(* C3: in every successful checkout each line's price is the stored price  *)
(* of its product code and the subtotal is the sum of those; and the       *)
(* answer to any checkout equals the answer to the same request with the   *)
(* client-supplied price and productName of every line removed.            *)
C3_PricesFromCatalog ==
  Priced =>
    /\ res = postCheckout(Unforged(req), req.at).res
    /\ res.kind = "OK" =>
         /\ \A i \in 1..Len(res.order.cart.items) :
              \E k \in 1..Len(Catalog) :
                /\ Catalog[k].product_code = res.order.cart.items[i].productCode
                /\ Catalog[k].product_price = res.order.cart.items[i].price
                /\ Catalog[k].product_name = res.order.cart.items[i].productName
         /\ Amount(res.order.pricing, "subtotal") = StoredSum(res.order.cart.items)

C3_Witness ==
  /\ Priced
  /\ res.kind = "OK"
  /\ \E i \in 1..Len(req.body.cart.items) : req.body.cart.items[i].price = JNum(100)
  /\ Len(res.order.cart.items) = Len(req.body.cart.items)
  /\ \A i \in 1..Len(res.order.cart.items) :
       res.order.cart.items[i].price = JNum(80000)

----------------------------------------------------------------------------
----------------------------------------------------------------------------
(* C8 as stated: a checkout whose cart holds only well-formed codes that   *)
(* the catalog does not know fails with InvalidInput.                      *)
C8_AllUnknownIsInvalidInput ==
  (Priced /\ CodesWellFormed(req) /\ KnownLines(req) = {})
    => res.kind = "InvalidInput"

(* C8 amended: such a checkout fails with NotFound (404), never with       *)
(* InvalidInput or Internal; a well-formed cart fails with InvalidInput    *)
(* exactly when some code is known to the catalog and every line is        *)
(* dropped.                                                                *)
C8_AllUnknownIsNotFound ==
  (Priced /\ CodesWellFormed(req)) =>
    /\ KnownLines(req) = {} => (res.kind = "NotFound" /\ res.http = 404)
    /\ KnownLines(req) # {} => res.kind \in {"OK", "InvalidInput"}
    /\ res.kind = "InvalidInput" => res.http = 400

C8_Witness ==
  /\ Priced
  /\ CodesWellFormed(req)
  /\ KnownLines(req) = {}
  /\ Len(req.body.cart.items) = 2
  /\ res.kind = "NotFound"

----------------------------------------------------------------------------
(* C9: when checkout succeeds, the summary's cart is exactly the submitted *)
(* lines, in order and with duplicates, whose trimmed code has a catalog   *)
(* record and whose size is a non-blank string.                            *)
C9_KeepsEveryValidLine ==
  (Priced /\ res.kind = "OK") =>
    [i \in 1..Len(res.order.cart.items) |->
       <<res.order.cart.items[i].productCode.s, res.order.cart.items[i].size.s>>]
      = Kept(req.body.cart.items)

====
